---- MODULE Spec2Model ----
(***************************************************************************)
(* templa: Config (src/src/templa/config.py), the staged Builder           *)
(* (src/src/templa/builder.py) and YAMLBuilder                             *)
(* (src/src/templa/yaml_builder.py), modelled over an explicit object heap *)
(* so that aliasing, deepcopy and identity comparison are what the code    *)
(* does.                                                                   *)
(*                                                                         *)
(* An address is an index of heap; an object never moves and is never      *)
(* freed.  The caller of the library is the environment: it holds          *)
(* references (held), keeps the stage tokens it was given (tokens), calls  *)
(* the public operations and mutates the objects it holds.                 *)
(***************************************************************************)
EXTENDS Integers, Sequences, FiniteSets, TLC

VARIABLES
    heap,    \* Seq of objects: the address of an object is its index
    held,    \* address -> name of the operation that handed it to the caller
    tokens,  \* stage tokens the caller was given: the reference and its static type
    ran,     \* <<builder, stage>> : the stage method completed on the builder
    last,    \* the last call: operation, receiver, argument, exception, result
    used     \* how many constructions, mutations, copying reads and stage runs
             \* happened, and the cap on their sum

vars == <<heap, held, tokens, ran, last, used>>

-----------------------------------------------------------------------------
(* Bounds of the model *)

MaxMut == 1       \* caller mutations
MaxFetch == 2     \* accessor and fetch calls that return a copy
MaxRun == 3       \* completed process_template and build calls
MaxBuilders == 2  \* Builder objects the caller constructs or deep-copies
MaxWork == 3      \* Spec: constructions, copying reads and stage runs together
MaxAliasWork == 3 \* SpecAlias: mutations, copying reads and stage runs together
MaxFetchWork == 4 \* SpecFetch: mutations, copying reads and stage runs together
MaxConfigWork == 3 \* SpecConfig: constructions, mutations and copying reads together
MaxInt == 5       \* the integers whose text YAML resolves to int
MaxPairWork == 3  \* SpecPair: copying reads and stage runs together
MaxHookWork == 3  \* SpecHook: copying reads and stage runs together
MaxKeys == 2      \* SpecYaml: entries of a rendered YAML mapping, at each level
MaxYamlRun == 2   \* SpecYaml: completed process_template and build calls

-----------------------------------------------------------------------------
(* Python values.  A scalar keeps its type and its str() text, so that      *)
(* rendering (which drops the type) and YAML parsing (which resolves it     *)
(* again from the text) are not the identity.                               *)

NULL == 0

PyStr(s) == [t |-> "str", v |-> s]
PyInt(s) == [t |-> "int", v |-> s]
NoneV == [t |-> "none", v |-> "None"]

FOO == PyStr("FOO")
FIVE == PyInt("5")
STR5 == PyStr("5")
ZOO == PyStr("ZOO")
ZOO_Updated == PyStr("ZOO_Updated")

\* the fields of the ConfigData dataclass the tests declare (foo, bar)
Fields == {"foo", "bar"}

\* the types StubYamlConfigData annotates its fields with
FieldTypes == [foo |-> "str", bar |-> "str"]

ABC == PyStr("abc")

\* a dict literal of two entries
Dict2(k1, v1, k2, v2) == [k \in {k1, k2} |-> IF k = k1 THEN v1 ELSE v2]

\* templates "---\n- {{ a }}\n- {{ b }}...": the variables of the items
T2 == <<"foo", "bar">>
T3 == <<"foo", "bar", "zoo">>
Templates == {T2, T3}

\* the mapping of the tests, {"foo": "FOO", "bar": 5}
TestDict == Dict2("foo", FOO, "bar", FIVE)

RawDicts == {TestDict, Dict2("foo", STR5, "bar", FOO)}

\* the mapping of the Config tests, {"bar": "abc", "foo": 5}
BarDict == Dict2("bar", ABC, "foo", FIVE)

\* what the caller writes into the dicts and lists it holds
MutKeys == {"foo", "zoo"}
MutVals == {ZOO}

-----------------------------------------------------------------------------
(* Objects *)

DictObj(items) == [kind |-> "dict", items |-> items]
ListObj(elems) == [kind |-> "list", elems |-> elems]
\* a getter over jinja2.Environment(loader=DictLoader(...)), and the getter of
\* test_new_builder over jinja2.Environment(), which has no loader
TGObj(template) ==
    [kind |-> "tg", template |-> template, attrs |-> {}, loader |-> TRUE]
TGNoLoader == [kind |-> "tg", template |-> <<>>, attrs |-> {}, loader |-> FALSE]

NoData == [some |-> FALSE, fields |-> <<>>]
NoneP == [some |-> FALSE, elems |-> <<>>]
NoneB == [some |-> FALSE, text |-> <<>>]
SomeP(elems) == [some |-> TRUE, elems |-> elems]
SomeB(text) == [some |-> TRUE, text |-> text]

Addrs(h) == 1..Len(h)
OfKind(h, k) == {a \in Addrs(h) : h[a].kind = k}

\* the value of an Optional[list] slot
PVal(h, p) == IF p = NULL THEN NoneP ELSE SomeP(h[p].elems)

\* The value of an object with everything it refers to: what == compares on
\* dicts and lists, and what a caller can observe of a Config or a Builder.
ConfigView(h, c) ==
    [cls |-> h[c].cls, raw |-> h[h[c].raw].items, data |-> h[c].data,
     attrs |-> h[c].attrs]

BuilderView(h, b) ==
    [cls |-> h[b].cls,
     config |-> ConfigView(h, h[b].config),
     render_context |-> h[h[b].render_context].items,
     template_getter |-> h[h[b].template_getter],
     parse_rendered_template |-> h[b].parse_rendered_template,
     build_processed |-> h[b].build_processed,
     processed |-> PVal(h, h[b].processed),
     built |-> h[b].built]

View(h, a) ==
    IF h[a].kind = "config" THEN [kind |-> "config", value |-> ConfigView(h, a)]
    ELSE IF h[a].kind = "builder" THEN [kind |-> "builder", value |-> BuilderView(h, a)]
    ELSE [kind |-> h[a].kind, value |-> h[a]]

-----------------------------------------------------------------------------
(* copy.deepcopy: a copy of an object and of every mutable object it refers *)
(* to; the result is the new heap and the address of the copy.  Scalars,    *)
(* the frozen ConfigData record, the built text and the two callables are   *)
(* immutable values and stay inline.                                        *)

Ref(h, ref) == [h |-> h, ref |-> ref]
Alloc(h, obj) == Ref(Append(h, obj), Len(h) + 1)

deepcopy_config(h, a) ==
    LET raw == Alloc(h, h[h[a].raw])
    IN  Alloc(raw.h, [h[a] EXCEPT !.raw = raw.ref])

deepcopy_builder(h, a) ==
    LET c == deepcopy_config(h, h[a].config)
        rc == Alloc(c.h, c.h[h[a].render_context])
        tg == Alloc(rc.h, rc.h[h[a].template_getter])
        p == IF h[a].processed = NULL THEN Ref(tg.h, NULL)
             ELSE Alloc(tg.h, tg.h[h[a].processed])
    IN  Alloc(p.h, [h[a] EXCEPT !.config = c.ref, !.render_context = rc.ref,
                                !.template_getter = tg.ref, !.processed = p.ref])

deepcopy(h, a) ==
    IF a = NULL THEN Ref(h, NULL)
    ELSE IF h[a].kind = "config" THEN deepcopy_config(h, a)
    ELSE IF h[a].kind = "builder" THEN deepcopy_builder(h, a)
    ELSE Alloc(h, h[a])

-----------------------------------------------------------------------------
(* The external collaborators, by what they do to these values *)

\* jinja2 Template.render: each item is str() of the variable's value, and
\* the empty text for a variable the context does not define
render(template, context) ==
    [i \in 1..Len(template) |->
        IF template[i] \in DOMAIN context THEN context[template[i]].v ELSE ""]

\* Environment.get_template raises TypeError ("no loader for this environment
\* specified") when the environment has no loader
get_template_raises(tg) == ~tg.loader

IntTexts == {ToString(n) : n \in 0..MaxInt}

\* the YAML parser raises ParserError on an item that opens a flow sequence
\* and does not close it
yaml_load_raises(rendered_str) ==
    \E i \in 1..Len(rendered_str) : rendered_str[i] = "["

\* the YAML resolver on one plain scalar
yaml_scalar(s) ==
    IF s \in {"", "null", "~"} THEN NoneV
    ELSE IF s \in IntTexts THEN PyInt(s)
    ELSE PyStr(s)

\* yaml.safe_load of the rendered text: a document without items is None
parse_rendered_template_yaml_stub(rendered_str) ==
    IF rendered_str = <<>> THEN NoneP
    ELSE SomeP([i \in 1..Len(rendered_str) |-> yaml_scalar(rendered_str[i])])

\* the YAML representer on one scalar: a str that would not resolve to a str
\* again is quoted
yaml_represent(x) ==
    IF x.t = "none" THEN "null"
    ELSE IF x.t = "int" THEN x.v
    ELSE IF yaml_scalar(x.v).t # "str" THEN "'" \o x.v \o "'"
    ELSE x.v

\* yaml.dump(processed, Dumper=yaml.SafeDumper): one "- item" line per
\* element, "[]" for the empty list, "null" and the document end for None
build_processed_yaml_stub(processed) ==
    IF ~processed.some THEN SomeB(<<"null", "...">>)
    ELSE IF processed.elems = <<>> THEN SomeB(<<"[]">>)
    ELSE SomeB([i \in 1..Len(processed.elems) |->
                    "- " \o yaml_represent(processed.elems[i])])

-----------------------------------------------------------------------------
(* Config (config.py) *)

\* The Config classes: Config itself (and the subclasses that override
\* nothing but __init__), and the two subclasses of tests/test_config.py
\* that override _get_render_context.
ConfigClasses == {"Config", "BarConfigZoo", "BarConfigNone"}

\* (faulty variant) __init__ builds the record at once
Config_init_loads(h, raw_config_dict) ==
    Alloc(h, [kind |-> "config", cls |-> "Config", raw |-> raw_config_dict,
              data |-> [some |-> TRUE, fields |-> h[raw_config_dict].items],
              attrs |-> {}])

\* Config.__init__: the mapping is stored as given, data is None
Config_init(h, raw_config_dict) ==
    Alloc(h, [kind |-> "config", cls |-> "Config", raw |-> raw_config_dict,
              data |-> NoData, attrs |-> {}])

\* a subclass's __init__: super().__init__(raw_config_dict, BarConfigData)
SubConfig_init(h, raw_config_dict, cls) ==
    LET r == Config_init(h, raw_config_dict)
    IN  Ref([r.h EXCEPT ![r.ref].cls = cls], r.ref)

\* (faulty variant) the dataclass takes keyword arguments it does not declare
accepts_extra_fields(items) == Fields \subseteq DOMAIN items

\* ConfigDataClass(**raw): the dataclass takes exactly its fields as keyword
\* arguments (TypeError otherwise) and does not look at the values' types
ConfigData_accepts(items) == DOMAIN items = Fields

load_config(h, c) ==
    [h EXCEPT ![c].data = [some |-> TRUE, fields |-> h[h[c].raw].items]]

\* the data property: the frozen record itself
data(h, c) == h[c].data

\* (faulty variant) the base gives no context at all
_get_render_context_empty(d) == <<>>

\* Config._get_render_context: {} for None, dataclasses.asdict otherwise
\* (the items of a new dict)
_get_render_context(d) == IF ~d.some THEN <<>> ELSE d.fields

\* context.update({k: v})
dict_update(items, k, v) ==
    [x \in DOMAIN items \cup {k} |-> IF x = k THEN v ELSE items[x]]

\* int + 5 on the text of an int
IntOf(s) == CHOOSE n \in 0..MaxInt : ToString(n) = s
PlusFive(x) == PyInt(ToString(IntOf(x.v) + 5))

\* (faulty variant) the override returns what the base returned
BarConfigZoo_base_only(d) == _get_render_context(d)

\* the override of test_config_sub_class_override_get_render_context:
\* super()._get_render_context(data), then zoo: ZOO
BarConfigZoo_get_render_context(d) ==
    dict_update(_get_render_context(d), "zoo", ZOO)

\* the override of test_config_sub_class_override_get_render_context_with_none:
\* {} for None, else super()._get_render_context(None), then zoo: data.foo + 5;
\* str + int raises TypeError
BarConfigNone_raises(d) == d.some /\ d.fields["foo"].t # "int"

BarConfigNone_get_render_context(d) ==
    IF ~d.some THEN <<>>
    ELSE dict_update(_get_render_context(NoData), "zoo", PlusFive(d.fields["foo"]))

\* Config.get_render_context: self._get_render_context(self.__data), the
\* override of the object's class
get_render_context_raises(h, c) ==
    h[c].cls = "BarConfigNone" /\ BarConfigNone_raises(h[c].data)

get_render_context(h, c) ==
    IF h[c].cls = "BarConfigZoo" THEN BarConfigZoo_get_render_context(h[c].data)
    ELSE IF h[c].cls = "BarConfigNone" THEN BarConfigNone_get_render_context(h[c].data)
    ELSE _get_render_context(h[c].data)

\* (faulty variant) the property raises whether or not data is there
field_always_raises(h, c) == TRUE

\* the bar and foo properties of BarConfig (tests/test_config.py): TRUE iff
\* ConfigDataNotLoadedError is raised, and the field otherwise
BarConfig_field_raises(h, c) == ~h[c].data.some
BarConfig_field(h, c, f) == h[c].data.fields[f]

\* the raw_config_dict property
raw_config_dict(h, c) == deepcopy(h, h[c].raw)

-----------------------------------------------------------------------------
(* Builder (builder.py) *)

BuilderClasses == {"Builder", "StubBuilder"}

\* (faulty variant) __init__ keeps the caller's getter instead of a deep copy of it
Builder_init_shares_getter(h, config, template_getter, cls) ==
    LET c == deepcopy(h, config)
        loaded == load_config(c.h, c.ref)
        rc == Alloc(loaded, DictObj(get_render_context(loaded, c.ref)))
    IN  Alloc(rc.h, [kind |-> "builder", cls |-> cls,
                     config |-> c.ref,
                     render_context |-> rc.ref,
                     template_getter |-> template_getter,
                     parse_rendered_template |-> "parse_rendered_template_yaml_stub",
                     build_processed |-> "build_processed_yaml_stub",
                     processed |-> NULL,
                     built |-> NoneB])

\* (faulty variant) __init__ keeps and loads the caller's Config instead of a
\* deep copy of it
Builder_init_shares_config(h, config, template_getter, cls) ==
    LET loaded == load_config(h, config)
        rc == Alloc(loaded, DictObj(get_render_context(loaded, config)))
        tg == deepcopy(rc.h, template_getter)
    IN  Alloc(tg.h, [kind |-> "builder", cls |-> cls,
                     config |-> config,
                     render_context |-> rc.ref,
                     template_getter |-> tg.ref,
                     parse_rendered_template |-> "parse_rendered_template_yaml_stub",
                     build_processed |-> "build_processed_yaml_stub",
                     processed |-> NULL,
                     built |-> NoneB])

\* (faulty variant) __init__ loads the caller's Config and keeps a deep copy
\* of the loaded Config
Builder_init_loads_original(h, config, template_getter, cls) ==
    LET c == deepcopy(load_config(h, config), config)
        rc == Alloc(c.h, DictObj(get_render_context(c.h, c.ref)))
        tg == deepcopy(rc.h, template_getter)
    IN  Alloc(tg.h, [kind |-> "builder", cls |-> cls,
                     config |-> c.ref,
                     render_context |-> rc.ref,
                     template_getter |-> tg.ref,
                     parse_rendered_template |-> "parse_rendered_template_yaml_stub",
                     build_processed |-> "build_processed_yaml_stub",
                     processed |-> NULL,
                     built |-> NoneB])

\* Builder.__init__, for a config the dataclass accepts
Builder_init(h, config, template_getter, cls) ==
    LET c == deepcopy(h, config)
        loaded == load_config(c.h, c.ref)
        rc == Alloc(loaded, DictObj(get_render_context(loaded, c.ref)))
        tg == deepcopy(rc.h, template_getter)
    IN  Alloc(tg.h, [kind |-> "builder", cls |-> cls,
                     config |-> c.ref,
                     render_context |-> rc.ref,
                     template_getter |-> tg.ref,
                     parse_rendered_template |-> "parse_rendered_template_yaml_stub",
                     build_processed |-> "build_processed_yaml_stub",
                     processed |-> NULL,
                     built |-> NoneB])

\* (faulty variant) the config property hands out the private Config itself
config_no_copy(h, self) == Ref(h, h[self].config)

\* the config and template_getter properties
config(h, self) == deepcopy(h, h[self].config)
template_getter(h, self) == deepcopy(h, h[self].template_getter)

\* (faulty variants) the check compares the builders' values; never raises; raises
\* on the builder's own reference
check_by_value(h, self, target) == BuilderView(h, self) # BuilderView(h, target)
check_never_raises(h, self, target) == FALSE
check_inverted(h, self, target) == self = target

\* TRUE iff _check_see_if_same_builder_instance raises: Builder defines no
\* __eq__, so self != target compares identities
_check_see_if_same_builder_instance(h, self, target) == self # target

\* BuilderTargetInitialized, BuilderTargetProcessed, BuilderTargetBuilt:
\* typing.NewType, which at run time returns its argument
BuilderTargetInitialized(x) == x
BuilderTargetProcessed(x) == x
BuilderTargetBuilt(x) == x

\* (faulty variant) the token is a Builder, not necessarily the calling one
init_builder_target_any(h, self) ==
    BuilderTargetInitialized(CHOOSE b \in OfKind(h, "builder") : TRUE)

\* Builder.init_builder_target
init_builder_target(h, self) == BuilderTargetInitialized(self)

\* (faulty variants) the fetches return the stored object itself
fetch_render_context_no_copy(h, self) == Ref(h, h[self].render_context)
fetch_processed_no_copy(h, self) == Ref(h, h[self].processed)

\* what fetch_render_context returns when the check passes
fetch_render_context(h, self) == deepcopy(h, h[self].render_context)

\* what fetch_processed returns when the check passes
fetch_processed(h, self) == deepcopy(h, h[self].processed)

\* what fetch_built returns when the check passes (a str: deepcopy gives
\* the same immutable value)
fetch_built(h, self) == h[self].built

\* The callables given to __init__, by name: the two YAML stubs of the tests,
\* and for build_processed also a callable of the caller's that returns the
\* text abc (as build_processed_stub_str) or raises.
ParseCallables == {"parse_rendered_template_yaml_stub"}
BuildCallables == {"build_processed_yaml_stub", "build_processed"}

\* self.__parse_rendered_template = ..., self.__build_processed = ...
set_callables(r, parse, build) ==
    Ref([r.h EXCEPT ![r.ref].parse_rendered_template = parse,
                    ![r.ref].build_processed = build], r.ref)

call_parse_raises(f, rendered_str) == yaml_load_raises(rendered_str)
call_parse(f, rendered_str) == parse_rendered_template_yaml_stub(rendered_str)

\* TRUE iff the callable can raise on some call
call_build_may_raise(f) == f # "build_processed_yaml_stub"
call_build(f, processed) ==
    IF f = "build_processed_yaml_stub" THEN build_processed_yaml_stub(processed)
    ELSE SomeB(<<"abc">>)

\* The exception that Builder._process_template raises ("" for none): of
\* get_template, else of the parse callable on the rendered text
_process_template_raises(h, self, context) ==
    IF get_template_raises(h[h[self].template_getter]) THEN "TypeError"
    ELSE IF call_parse_raises(h[self].parse_rendered_template,
                render(h[h[self].template_getter].template, context))
    THEN "ParserError"
    ELSE ""

\* the heap that Builder._process_template leaves when a collaborator raises:
\* the assignment to __processed is not reached
_process_template_raised(h, self, context) == h

\* (faulty variant) the rendered items are stored as they are, unparsed
_process_template_unparsed(h, self, context) ==
    LET template == h[h[self].template_getter].template
        rendered_str == render(template, context)
        p == Alloc(h, ListObj([i \in 1..Len(rendered_str) |-> PyStr(rendered_str[i])]))
    IN  [p.h EXCEPT ![self].processed = p.ref]

\* (faulty variant) the hook stores a built value along with the processed one
_process_template_stores_built(h, self, context) ==
    LET template == h[h[self].template_getter].template
        rendered_str == render(template, context)
        parsed == call_parse(h[self].parse_rendered_template, rendered_str)
        p == IF parsed.some THEN Alloc(h, ListObj(parsed.elems)) ELSE Ref(h, NULL)
    IN  [p.h EXCEPT ![self].processed = p.ref,
                    ![self].built = call_build(h[self].build_processed, parsed)]

\* Builder._process_template: get the template, render, parse, store
_process_template(h, self, context) ==
    LET template == h[h[self].template_getter].template
        rendered_str == render(template, context)
        parsed == call_parse(h[self].parse_rendered_template, rendered_str)
        p == IF parsed.some THEN Alloc(h, ListObj(parsed.elems)) ELSE Ref(h, NULL)
    IN  [p.h EXCEPT ![self].processed = p.ref]

\* (faulty variant) the override passes the context on as it got it
Stub_process_template_no_zoo(h, self, context) ==
    _process_template(h, self, h[context].items)

\* StubBuilder._process_template (tests/test_builder.py), on the dict at
\* context: context.update({"zoo": "ZOO"}) in place, then the base
Stub_process_template(h, self, context) ==
    LET updated == [h EXCEPT ![context].items = dict_update(@, "zoo", ZOO)]
    IN  _process_template(updated, self, updated[context].items)

\* (faulty variant) _build drops the processed value once it is built
_build_resets_processed(h, self, processed) ==
    [h EXCEPT ![self].built = call_build(h[self].build_processed, processed),
              ![self].processed = NULL]

\* (faulty variant) _build builds from nothing
_build_from_none(h, self, processed) ==
    [h EXCEPT ![self].built = call_build(h[self].build_processed, NoneP)]

\* Builder._build: apply build_processed, store
_build(h, self, processed) ==
    [h EXCEPT ![self].built = call_build(h[self].build_processed, processed)]

\* (faulty variant) the slot is cleared before build_processed is called
_build_raised_clears(h, self, processed) == [h EXCEPT ![self].built = NoneB]

\* the heap that Builder._build leaves when build_processed raises: the
\* assignment to __built is not reached
_build_raised(h, self, processed) == h

\* StubBuilder._build: processed[2] = "ZOO_Updated" (IndexError on a shorter
\* list), then the base
Stub_build_raises(processed) == processed.some /\ Len(processed.elems) < 3

\* (faulty variant) the override passes processed on as it got it
Stub_build_unchanged(h, self, processed) == _build(h, self, PVal(h, processed))

\* StubBuilder._build on the list at processed (None: NULL): the item is
\* assigned in place, then the base
Stub_build(h, self, processed) ==
    LET updated == IF processed = NULL THEN h
                   ELSE [h EXCEPT ![processed].elems[3] = ZOO_Updated]
    IN  _build(updated, self, PVal(updated, processed))

\* A subclass whose hooks do not call the base: _process_template returns a
\* list of its own and _build a text of its own.
Override_process_template(h, self, context) == Alloc(h, ListObj(<<ZOO>>))
Override_build(h, self, processed) == [h |-> h, ret |-> SomeB(<<"override">>)]

HookClasses == BuilderClasses \cup {"OverrideBuilder"}

\* self._process_template(context), the hook of the object's class on the
\* dict at context: the heap it leaves and the list it returns
self_process_template(h, self, context) ==
    IF h[self].cls = "OverrideBuilder"
    THEN Override_process_template(h, self, context)
    ELSE LET r == IF h[self].cls = "StubBuilder"
                  THEN Stub_process_template(h, self, context)
                  ELSE _process_template(h, self, h[context].items)
         IN  Ref(r, r[self].processed)

\* self._build(processed), the hook of the object's class on the list at
\* processed: the heap it leaves and the text it returns
self_build(h, self, processed) ==
    IF h[self].cls = "OverrideBuilder"
    THEN Override_build(h, self, processed)
    ELSE LET r == IF h[self].cls = "StubBuilder"
                  THEN Stub_build(h, self, processed)
                  ELSE _build(h, self, PVal(h, processed))
         IN  [h |-> r, ret |-> r[self].built]

\* the exception the hook of the object's class raises in process_template
\* ("" for none): that of the base, on the context the hook hands to it
process_template_raises(h, self, target) ==
    LET context == h[h[self].render_context].items
    IN  IF h[self].cls = "OverrideBuilder" THEN ""
        ELSE IF h[self].cls = "StubBuilder"
        THEN _process_template_raises(h, self, dict_update(context, "zoo", ZOO))
        ELSE _process_template_raises(h, self, context)

\* (faulty variant) process_template hands the cached context itself to the hook
process_template_passes_cached(h, self, target) ==
    self_process_template(h, self, h[self].render_context).h

\* Builder.process_template after the check: the heap that
\* self._process_template(self.fetch_render_context(target)) leaves; what the
\* hook returns is dropped
process_template(h, self, target) ==
    LET context == fetch_render_context(h, self)
    IN  self_process_template(context.h, self, context.ref).h

\* (faulty variants) build hands the stored list itself to the hook; build
\* stores what the hook returns
build_passes_stored(h, self, target) ==
    self_build(h, self, h[self].processed).h

build_stores_return(h, self, target) ==
    LET processed == fetch_processed(h, self)
        hook == self_build(processed.h, self, processed.ref)
    IN  [hook.h EXCEPT ![self].built = hook.ret]

\* Builder.build after the check: the heap that
\* self._build(self.fetch_processed(target)) leaves; what the hook returns is
\* dropped
build(h, self, target) ==
    LET processed == fetch_processed(h, self)
    IN  self_build(processed.h, self, processed.ref).h

-----------------------------------------------------------------------------
(* YAMLBuilder (yaml_builder.py) *)

\* A rendered YAML block mapping is the sequence of its entries, in the order
\* of the text.  A node is a plain scalar (its text, no entries) or a nested
\* mapping (entries); a key is a plain scalar.
YamlScalar(text) == [text |-> text, entries |-> <<>>]
YamlMap(entries) == [text |-> "", entries |-> entries]
YamlEntry(k, v) == [k |-> k, v |-> v]

\* the key texts: two that resolve to str and two that resolve to int
YamlKeys == {"foo", "bar", "1", "2"}

\* the order of str on the key texts that are str
StrRank == [bar |-> 1, foo |-> 2]

\* a Python value made of a mapping node: a scalar, or an OrderedDict as the
\* sequence of its items in insertion order
PyScalar(x) == [scalar |-> x, items |-> <<>>, dict |-> FALSE]
PyODict(items) == [scalar |-> NoneV, items |-> items, dict |-> TRUE]

\* a dict filled by mapping[key] = value in the order of pairs: a key that is
\* there keeps its place and takes the new value
RECURSIVE dict_of(_)
dict_of(pairs) ==
    IF pairs = <<>> THEN <<>>
    ELSE LET n == Len(pairs)
             d == dict_of(SubSeq(pairs, 1, n - 1))
         IN  IF \E i \in 1..Len(d) : d[i].k = pairs[n].k
             THEN [i \in 1..Len(d) |->
                      IF d[i].k = pairs[n].k THEN [d[i] EXCEPT !.v = pairs[n].v]
                      ELSE d[i]]
             ELSE Append(d, pairs[n])

\* ordered_dict_constructor: OrderedDict(loader.construct_mapping(node)), the
\* keys and values made by construct_object, which resolves a plain scalar
\* and calls this constructor again on a mapping
RECURSIVE construct_object(_)
construct_object(node) ==
    IF node.entries = <<>> THEN PyScalar(yaml_scalar(node.text))
    ELSE PyODict(dict_of(
            [i \in 1..Len(node.entries) |->
                [k |-> yaml_scalar(node.entries[i].k),
                 v |-> construct_object(node.entries[i].v)]]))

ordered_dict_constructor(node) == construct_object(node)

\* load_rendered_yaml_str: yaml.load(rendered_str, OrderedDictLoader)
load_rendered_yaml_str(rendered_str) == ordered_dict_constructor(rendered_str)

\* sorted(mapping.items()) of represent_mapping: TypeError, which it catches,
\* when keys of str and int are compared
PyLess(x, y) ==
    IF x.t = "int" THEN IntOf(x.v) < IntOf(y.v) ELSE StrRank[x.v] < StrRank[y.v]

sorted_items(items) ==
    IF \E i, j \in 1..Len(items) : items[i].k.t # items[j].k.t THEN items
    ELSE [p \in 1..Len(items) |->
            items[CHOOSE i \in 1..Len(items) :
                    Cardinality({j \in 1..Len(items) :
                                    PyLess(items[j].k, items[i].k)}) = p - 1]]

\* list.index(key) on the texts of the key nodes: a text equals a key that is
\* a str of that text, and no key that is an int; 0 for ValueError
keys_index(keys, key) ==
    IF \E i \in 1..Len(keys) : key.t = "str" /\ keys[i] = key.v
    THEN CHOOSE i \in 1..Len(keys) :
            /\ key.t = "str" /\ keys[i] = key.v
            /\ \A j \in 1..(i - 1) : keys[j] # key.v
    ELSE 0

\* TRUE iff ordered_dict_representer raises ValueError on data or on an
\* OrderedDict in it
RECURSIVE ordered_dict_representer_raises(_)
ordered_dict_representer_raises(x) ==
    /\ x.dict
    /\ LET keys == [i \in 1..Len(x.items) |-> x.items[i].k.v]
       IN  \/ \E i \in 1..Len(x.items) : keys_index(keys, x.items[i].k) = 0
           \/ \E i \in 1..Len(x.items) : ordered_dict_representer_raises(x.items[i].v)

\* ordered_dict_representer: the node of represent_mapping, which has the
\* items sorted, with its entries put back in the order of data.keys() by
\* looking each key up among the texts of the key nodes
RECURSIVE represent_data(_)
represent_data(x) ==
    IF ~x.dict THEN YamlScalar(yaml_represent(x.scalar))
    ELSE LET mapping == sorted_items(x.items)
             value == [i \in 1..Len(mapping) |->
                          YamlEntry(mapping[i].k.v, represent_data(mapping[i].v))]
             keys == [i \in 1..Len(value) |-> value[i].k]
         IN  YamlMap([j \in 1..Len(x.items) |->
                          value[keys_index(keys, x.items[j].k)]])

ordered_dict_representer(x) == represent_data(x)

\* the lines a mapping node is emitted as, in block style
RECURSIVE emit(_)
emit(entries) ==
    IF entries = <<>> THEN <<>>
    ELSE LET e == Head(entries)
             nested == emit(e.v.entries)
         IN  (IF e.v.entries = <<>> THEN <<e.k \o ": " \o e.v.text>>
              ELSE <<e.k \o ":">> \o [i \in 1..Len(nested) |-> "  " \o nested[i]])
             \o emit(Tail(entries))

\* dump_parsed_obj: yaml.dump(processed, Dumper=OrderedDictDumper)
dump_parsed_obj_raises(processed) == ordered_dict_representer_raises(processed)
dump_parsed_obj(processed) == SomeB(emit(ordered_dict_representer(processed).entries))

\* YAMLBuilder.__init__ with a getter whose template renders to rendered_str:
\* Builder.__init__ with load_rendered_yaml_str and dump_parsed_obj
YAMLBuilder_init(rendered_str) ==
    [kind |-> "yamlbuilder", cls |-> "YAMLBuilder", rendered |-> rendered_str,
     parse_rendered_template |-> "load_rendered_yaml_str",
     build_processed |-> "dump_parsed_obj",
     processed |-> [some |-> FALSE, value |-> PyScalar(NoneV)],
     built |-> NoneB]

-----------------------------------------------------------------------------
(* The caller's bookkeeping *)

\* BuilderTargetInitialized, BuilderTargetProcessed and BuilderTargetBuilt are
\* NewTypes: calling one returns its argument, so at run time a token is the
\* reference itself and the type is known to the type checker alone.
Token(ref, tag) == [ref |-> ref, tag |-> tag]

\* the references the caller can pass as a target
Targets == {t.ref : t \in tokens}

NoToken == NULL

Call(op, self, target, exc, ret, val) ==
    [op |-> op, self |-> self, target |-> target, exc |-> exc,
     ret |-> ret, val |-> val]

Hold(hd, a, origin) ==
    IF a = NULL THEN hd
    ELSE [x \in DOMAIN hd \cup {a} |-> IF x = a THEN origin ELSE hd[x]]

Held(k) == {a \in DOMAIN held : heap[a].kind = k}

CanSpend(what, max) ==
    /\ used[what] < max
    /\ used.new + used.mut + used.fetch + used.run < used.cap

Spend(what) == [used EXCEPT ![what] = @ + 1]

Init ==
    /\ \E items \in RawDicts, template \in Templates :
         heap = Config_init(<<DictObj(items), TGObj(template)>>, 1).h
    /\ held = (1 :> "dict") @@ (2 :> "TemplateGetter") @@ (3 :> "Config")
    /\ tokens = {}
    /\ ran = {}
    /\ last = Call("start", NULL, NoToken, "", NULL, NoneB)
    /\ used = [new |-> 0, mut |-> 0, fetch |-> 0, run |-> 0, cap |-> MaxWork]

-----------------------------------------------------------------------------
(* Config operations *)

\* c.load_config()
LoadConfig(c) ==
    /\ IF ConfigData_accepts(heap[heap[c].raw].items)
       THEN /\ heap' = load_config(heap, c)
            /\ ran' = ran \cup {<<c, "load_config">>}
            /\ last' = Call("load_config", c, NoToken, "", NULL, NoneB)
       ELSE /\ UNCHANGED <<heap, ran>>
            /\ last' = Call("load_config", c, NoToken, "TypeError", NULL, NoneB)
    /\ UNCHANGED <<held, tokens, used>>

\* c.data
Data(c) ==
    /\ last' = Call("data", c, NoToken, "", NULL, data(heap, c))
    /\ UNCHANGED <<heap, held, tokens, ran, used>>

\* c.get_render_context(): a new dict, or the TypeError of the override
GetRenderContext(c) ==
    IF get_render_context_raises(heap, c)
    THEN /\ last' = Call("get_render_context", c, NoToken, "TypeError", NULL, NoneB)
         /\ UNCHANGED <<heap, held, tokens, ran, used>>
    ELSE /\ CanSpend("fetch", MaxFetch)
         /\ LET r == Alloc(heap, DictObj(get_render_context(heap, c)))
            IN  /\ heap' = r.h
                /\ held' = Hold(held, r.ref, "get_render_context")
                /\ last' = Call("get_render_context", c, NoToken, "", r.ref, NoneB)
         /\ used' = Spend("fetch")
         /\ UNCHANGED <<tokens, ran>>

\* c.bar, c.foo of a BarConfig
BarConfigField(c, f) ==
    /\ heap[c].cls = "Config"
    /\ IF BarConfig_field_raises(heap, c)
       THEN last' = Call(f, c, NoToken, "ConfigDataNotLoadedError", NULL, NoneB)
       ELSE last' = Call(f, c, NoToken, "", NULL, BarConfig_field(heap, c, f))
    /\ UNCHANGED <<heap, held, tokens, ran, used>>

\* c.raw_config_dict
RawConfigDict(c) ==
    /\ CanSpend("fetch", MaxFetch)
    /\ LET r == raw_config_dict(heap, c)
       IN  /\ heap' = r.h
           /\ held' = Hold(held, r.ref, "raw_config_dict")
           /\ last' = Call("raw_config_dict", c, NoToken, "", r.ref, NoneB)
    /\ used' = Spend("fetch")
    /\ UNCHANGED <<tokens, ran>>

-----------------------------------------------------------------------------
(* Builder operations *)

\* what __init__ raises: load_config on the copy raises when the dataclass
\* rejects the mapping, get_render_context when the override does
Builder_init_raises(h, cfg) ==
    IF ~ConfigData_accepts(h[h[cfg].raw].items) THEN TRUE
    ELSE LET c == deepcopy(h, cfg)
         IN  get_render_context_raises(load_config(c.h, c.ref), c.ref)

\* cls(config=c, template_getter=t, ...): no Builder exists when __init__
\* raises
NewBuilder(c, t, cls) ==
    /\ CanSpend("new", MaxBuilders)
    /\ IF ~Builder_init_raises(heap, c)
       THEN LET r == Builder_init(heap, c, t, cls)
            IN  /\ heap' = r.h
                /\ held' = Hold(held, r.ref, "Builder")
                /\ last' = Call("Builder", r.ref, NoToken, "", c, NoneB)
                /\ used' = Spend("new")
       ELSE /\ UNCHANGED <<heap, held, used>>
            /\ last' = Call("Builder", NULL, NoToken, "TypeError", c, NoneB)
    /\ UNCHANGED <<tokens, ran>>

\* copy.deepcopy(builder), as the tests do
CopyBuilder(b) ==
    /\ CanSpend("new", MaxBuilders)
    /\ LET r == deepcopy(heap, b)
       IN  /\ heap' = r.h
           /\ held' = Hold(held, r.ref, "deepcopy")
           /\ last' = Call("deepcopy", r.ref, NoToken, "", b, NoneB)
    /\ used' = Spend("new")
    /\ UNCHANGED <<tokens, ran>>

\* b.config
BuilderConfig(b) ==
    /\ CanSpend("fetch", MaxFetch)
    /\ LET r == config(heap, b)
       IN  /\ heap' = r.h
           /\ held' = Hold(held, r.ref, "config")
           /\ last' = Call("config", b, NoToken, "", r.ref, NoneB)
    /\ used' = Spend("fetch")
    /\ UNCHANGED <<tokens, ran>>

\* b.template_getter
BuilderTemplateGetter(b) ==
    /\ CanSpend("fetch", MaxFetch)
    /\ LET r == template_getter(heap, b)
       IN  /\ heap' = r.h
           /\ held' = Hold(held, r.ref, "template_getter")
           /\ last' = Call("template_getter", b, NoToken, "", r.ref, NoneB)
    /\ used' = Spend("fetch")
    /\ UNCHANGED <<tokens, ran>>

\* b.init_builder_target(): BuilderTargetInitialized(self)
InitBuilderTarget(b) ==
    /\ LET r == init_builder_target(heap, b)
       IN  /\ tokens' = tokens \cup {Token(r, "Initialized")}
           /\ last' = Call("init_builder_target", b, NoToken, "", r, NoneB)
    /\ UNCHANGED <<heap, held, ran, used>>

\* (faulty variant) process_template runs its hook before the check raises
Rejected_after_hook(op, b, target) ==
    /\ last' = Call(op, b, target, "NotSameBuilderInstanceError", NULL, NoneB)
    /\ heap' = IF op = "process_template" THEN process_template(heap, b, target)
               ELSE heap
    /\ UNCHANGED <<held, tokens, ran, used>>

\* a call whose first statement, the identity check, raises: nothing but the
\* exception
Rejected(op, b, target) ==
    /\ last' = Call(op, b, target, "NotSameBuilderInstanceError", NULL, NoneB)
    /\ UNCHANGED <<heap, held, tokens, ran, used>>

\* b.fetch_render_context(target)
FetchRenderContext(b, target) ==
    IF _check_see_if_same_builder_instance(heap, b, target)
    THEN Rejected("fetch_render_context", b, target)
    ELSE /\ CanSpend("fetch", MaxFetch)
         /\ LET r == fetch_render_context(heap, b)
            IN  /\ heap' = r.h
                /\ held' = Hold(held, r.ref, "fetch_render_context")
                /\ last' = Call("fetch_render_context", b, target, "", r.ref, NoneB)
         /\ used' = Spend("fetch")
         /\ UNCHANGED <<tokens, ran>>

\* b.process_template(target): check, hook on a fetched copy of the context,
\* BuilderTargetProcessed(target)
ProcessTemplate(b, target) ==
    IF _check_see_if_same_builder_instance(heap, b, target)
    THEN Rejected("process_template", b, target)
    ELSE IF process_template_raises(heap, b, target) # ""
    THEN /\ last' = Call("process_template", b, target,
                         process_template_raises(heap, b, target), NULL, NoneB)
         /\ heap' = _process_template_raised(heap, b, <<>>)
         /\ UNCHANGED <<held, tokens, ran, used>>
    ELSE /\ CanSpend("run", MaxRun)
         /\ heap' = process_template(heap, b, target)
         /\ LET r == BuilderTargetProcessed(target)
            IN  /\ tokens' = tokens \cup {Token(r, "Processed")}
                /\ last' = Call("process_template", b, target, "", r, NoneB)
         /\ ran' = ran \cup {<<b, "process_template">>}
         /\ used' = Spend("run")
         /\ UNCHANGED held

\* b.fetch_processed(target)
FetchProcessed(b, target) ==
    IF _check_see_if_same_builder_instance(heap, b, target)
    THEN Rejected("fetch_processed", b, target)
    ELSE /\ CanSpend("fetch", MaxFetch)
         /\ LET r == fetch_processed(heap, b)
            IN  /\ heap' = r.h
                /\ held' = Hold(held, r.ref, "fetch_processed")
                /\ last' = Call("fetch_processed", b, target, "", r.ref, NoneB)
         /\ used' = Spend("fetch")
         /\ UNCHANGED <<tokens, ran>>

\* build when build_processed raises: the exception and nothing else
BuildRaised(b, target, value) ==
    /\ last' = Call("build", b, target, "Exception", NULL, NoneB)
    /\ heap' = _build_raised(heap, b, value)
    /\ UNCHANGED <<held, tokens, ran, used>>

\* build when the hook returns
Built(b, target) ==
    /\ CanSpend("run", MaxRun)
    /\ heap' = build(heap, b, target)
    /\ LET r == BuilderTargetBuilt(target)
       IN  /\ tokens' = tokens \cup {Token(r, "Built")}
           /\ last' = Call("build", b, target, "", r, NoneB)
    /\ ran' = ran \cup {<<b, "build">>}
    /\ used' = Spend("run")
    /\ UNCHANGED held

\* b.build(target): check, hook on a fetched copy of processed,
\* BuilderTargetBuilt(target)
Build(b, target) ==
    IF _check_see_if_same_builder_instance(heap, b, target)
    THEN Rejected("build", b, target)
    ELSE LET processed == fetch_processed(heap, b)
             value == PVal(processed.h, processed.ref)
         IN  IF heap[b].cls = "StubBuilder" /\ Stub_build_raises(value)
             THEN /\ last' = Call("build", b, target, "IndexError", NULL, NoneB)
                  /\ UNCHANGED <<heap, held, tokens, ran, used>>
             ELSE IF /\ heap[b].cls # "OverrideBuilder"
                     /\ call_build_may_raise(heap[b].build_processed)
             THEN \/ BuildRaised(b, target, value)
                  \/ Built(b, target)
             ELSE Built(b, target)

\* b.fetch_built(target)
FetchBuilt(b, target) ==
    IF _check_see_if_same_builder_instance(heap, b, target)
    THEN Rejected("fetch_built", b, target)
    ELSE /\ last' = Call("fetch_built", b, target, "", NULL, fetch_built(heap, b))
         /\ UNCHANGED <<heap, held, tokens, ran, used>>

-----------------------------------------------------------------------------
(* YAMLBuilder operations, with the token of the builder itself *)

\* b.process_template(b.init_builder_target()): processed is
\* load_rendered_yaml_str of the rendered template
YamlProcessTemplate(b) ==
    /\ CanSpend("run", MaxYamlRun)
    /\ heap' = [heap EXCEPT ![b].processed =
                  [some |-> TRUE, value |-> load_rendered_yaml_str(heap[b].rendered)]]
    /\ tokens' = tokens \cup {Token(BuilderTargetProcessed(b), "Processed")}
    /\ ran' = ran \cup {<<b, "process_template">>}
    /\ last' = Call("process_template", b, b, "", b, NoneB)
    /\ used' = Spend("run")
    /\ UNCHANGED held

\* b.build(target) after process_template: built is dump_parsed_obj of a copy
\* of processed, or the ValueError of the representer
YamlBuild(b) ==
    /\ heap[b].processed.some
    /\ IF dump_parsed_obj_raises(heap[b].processed.value)
       THEN /\ last' = Call("build", b, b, "ValueError", NULL, NoneB)
            /\ UNCHANGED <<heap, held, tokens, ran, used>>
       ELSE /\ CanSpend("run", MaxYamlRun)
            /\ heap' = [heap EXCEPT ![b].built = dump_parsed_obj(heap[b].processed.value)]
            /\ tokens' = tokens \cup {Token(BuilderTargetBuilt(b), "Built")}
            /\ ran' = ran \cup {<<b, "build">>}
            /\ last' = Call("build", b, b, "", b, NoneB)
            /\ used' = Spend("run")
            /\ UNCHANGED held

\* b.fetch_built(target)
YamlFetchBuilt(b) ==
    /\ Token(b, "Built") \in tokens
    /\ last' = Call("fetch_built", b, b, "", NULL, heap[b].built)
    /\ UNCHANGED <<heap, held, tokens, ran, used>>

-----------------------------------------------------------------------------
(* What the caller does to the objects it holds *)

Mutated(op, a) ==
    /\ CanSpend("mut", MaxMut)
    /\ used' = Spend("mut")
    /\ last' = Call(op, a, NoToken, "", NULL, NoneB)
    /\ UNCHANGED <<held, tokens, ran>>

\* d[k] = v
DictSetItem(d, k, v) ==
    /\ IF k \in DOMAIN heap[d].items THEN heap[d].items[k] # v ELSE TRUE
    /\ heap' = [heap EXCEPT ![d].items =
                  [x \in DOMAIN @ \cup {k} |-> IF x = k THEN v ELSE @[x]]]
    /\ Mutated("dict_setitem", d)

\* del d[k]
DictDelItem(d, k) ==
    /\ k \in DOMAIN heap[d].items
    /\ heap' = [heap EXCEPT ![d].items = [x \in DOMAIN @ \ {k} |-> @[x]]]
    /\ Mutated("dict_delitem", d)

\* l[i] = v
ListSetItem(l, i, v) ==
    /\ i \in 1..Len(heap[l].elems)
    /\ heap[l].elems[i] # v
    /\ heap' = [heap EXCEPT ![l].elems[i] = v]
    /\ Mutated("list_setitem", l)

\* the getter is made to give another template
SetTemplate(t, template) ==
    /\ heap[t].template # template
    /\ heap' = [heap EXCEPT ![t].template = template]
    /\ Mutated("set_template", t)

\* o.__dict__.update({"updated": "updated"}) on a Config or a getter
UpdateDict(o) ==
    /\ "updated" \notin heap[o].attrs
    /\ heap' = [heap EXCEPT ![o].attrs = @ \cup {"updated"}]
    /\ Mutated("dict_update", o)

-----------------------------------------------------------------------------

(* The staged Builder: a caller that has a mapping, a getter and a Config   *)
(* of the mapping constructs Builders, deep-copies them, and calls the     *)
(* stage and fetch methods with every token it has.                        *)

Next ==
    \/ \E c \in Held("config"), t \in Held("tg"), cls \in BuilderClasses :
         NewBuilder(c, t, cls)
    \/ \E b \in Held("builder") : CopyBuilder(b)
    \/ \E b \in Held("builder") : InitBuilderTarget(b)
    \/ \E b \in Held("builder"), target \in Targets : FetchRenderContext(b, target)
    \/ \E b \in Held("builder"), target \in Targets : ProcessTemplate(b, target)
    \/ \E b \in Held("builder"), target \in Targets : FetchProcessed(b, target)
    \/ \E b \in Held("builder"), target \in Targets : Build(b, target)
    \/ \E b \in Held("builder"), target \in Targets : FetchBuilt(b, target)

Spec == Init /\ [][Next]_vars

-----------------------------------------------------------------------------------------------------------------------------------------------------
(* One Builder after its construction from a Config of the test mapping    *)
(* and a getter, all of which the caller still holds.                      *)

Constructed(cap) ==
    /\ \E template \in Templates, cls \in BuilderClasses :
         LET c == Config_init(<<DictObj(TestDict), TGObj(template)>>, 1)
         IN  heap = Builder_init(c.h, c.ref, 2, cls).h
    /\ held = [a \in {1, 2, 3, Len(heap)} |->
                 IF a = 1 THEN "dict" ELSE IF a = 2 THEN "TemplateGetter"
                 ELSE IF a = 3 THEN "Config" ELSE "Builder"]
    /\ tokens = {}
    /\ ran = {}
    /\ last = Call("start", NULL, NoToken, "", NULL, NoneB)
    /\ used = [new |-> 0, mut |-> 0, fetch |-> 0, run |-> 0, cap |-> cap]

(* Construction and accessors: the caller reads through the accessors of   *)
(* the Config and the Builder, mutates the mapping, the Config and the     *)
(* getter it constructed the Builder from and every object an accessor     *)
(* returned, and runs process_template.                                    *)

InitAlias == Constructed(MaxAliasWork)

NextAlias ==
    \/ \E c \in Held("config") : LoadConfig(c)
    \/ \E c \in Held("config") : RawConfigDict(c)
    \/ \E b \in Held("builder") : BuilderConfig(b)
    \/ \E b \in Held("builder") : BuilderTemplateGetter(b)
    \/ \E b \in Held("builder") : InitBuilderTarget(b)
    \/ \E b \in Held("builder"), target \in Targets : ProcessTemplate(b, target)
    \/ \E d \in Held("dict"), k \in MutKeys, v \in MutVals : DictSetItem(d, k, v)
    \/ \E d \in Held("dict"), k \in Fields : DictDelItem(d, k)
    \/ \E t \in Held("tg"), template \in Templates : SetTemplate(t, template)
    \/ \E o \in Held("config") \cup Held("tg") : UpdateDict(o)

SpecAlias == InitAlias /\ [][NextAlias]_vars

(* Stages and fetches: the caller runs the stage and fetch methods in any  *)
(* order with the builder's token and mutates the mappings and lists it    *)
(* holds, those a fetch returned included.                                 *)

InitFetch == Constructed(MaxFetchWork)

NextFetch ==
    \/ \E b \in Held("builder") : InitBuilderTarget(b)
    \/ \E b \in Held("builder"), target \in Targets : FetchRenderContext(b, target)
    \/ \E b \in Held("builder"), target \in Targets : ProcessTemplate(b, target)
    \/ \E b \in Held("builder"), target \in Targets : FetchProcessed(b, target)
    \/ \E b \in Held("builder"), target \in Targets : Build(b, target)
    \/ \E b \in Held("builder"), target \in Targets : FetchBuilt(b, target)
    \/ \E d \in Held("dict"), k \in MutKeys, v \in MutVals : DictSetItem(d, k, v)
    \/ \E d \in Held("dict"), k \in Fields : DictDelItem(d, k)
    \/ \E l \in Held("list"), i \in 1..3, v \in MutVals : ListSetItem(l, i, v)

SpecFetch == InitFetch /\ [][NextFetch]_vars

(* A Builder and its deep copy, as in test_builder_not_same_instance_error:  *)
(* the caller runs the stage and fetch methods of either with every token  *)
(* it has.                                                                 *)

InitPair ==
    /\ \E template \in Templates, cls \in BuilderClasses :
         LET c == Config_init(<<DictObj(TestDict), TGObj(template)>>, 1)
             b == Builder_init(c.h, c.ref, 2, cls)
         IN  /\ heap = deepcopy(b.h, b.ref).h
             /\ held = [a \in {b.ref, Len(heap)} |->
                          IF a = b.ref THEN "Builder" ELSE "deepcopy"]
    /\ tokens = {}
    /\ ran = {}
    /\ last = Call("start", NULL, NoToken, "", NULL, NoneB)
    /\ used = [new |-> 0, mut |-> 0, fetch |-> 0, run |-> 0, cap |-> MaxPairWork]

NextPair ==
    \/ \E b \in Held("builder") : InitBuilderTarget(b)
    \/ \E b \in Held("builder"), target \in Targets : FetchRenderContext(b, target)
    \/ \E b \in Held("builder"), target \in Targets : ProcessTemplate(b, target)
    \/ \E b \in Held("builder"), target \in Targets : FetchProcessed(b, target)
    \/ \E b \in Held("builder"), target \in Targets : Build(b, target)
    \/ \E b \in Held("builder"), target \in Targets : FetchBuilt(b, target)

SpecPair == InitPair /\ [][NextPair]_vars

(* Hooks and failures: a Builder of the base class, of StubBuilder or of a  *)
(* subclass whose hooks do not call the base, over a mapping that renders  *)
(* to YAML or to an unclosed flow sequence, a getter with or without a     *)
(* loader, and a build_processed that cannot or can raise.                 *)

\* {"foo": "[", "bar": 5}: the first item renders to "- ["
OpenDict == Dict2("foo", PyStr("["), "bar", FIVE)

HookDicts == {TestDict, OpenDict}
HookGetters == {TGObj(T3), TGNoLoader}

InitHook ==
    /\ \E items \in HookDicts, tg \in HookGetters, cls \in HookClasses,
          parse \in ParseCallables, build_processed \in BuildCallables :
         LET c == Config_init(<<DictObj(items), tg>>, 1)
         IN  heap = set_callables(Builder_init(c.h, c.ref, 2, cls),
                                  parse, build_processed).h
    /\ held = [a \in {1, 2, 3, Len(heap)} |->
                 IF a = 1 THEN "dict" ELSE IF a = 2 THEN "TemplateGetter"
                 ELSE IF a = 3 THEN "Config" ELSE "Builder"]
    /\ tokens = {}
    /\ ran = {}
    /\ last = Call("start", NULL, NoToken, "", NULL, NoneB)
    /\ used = [new |-> 0, mut |-> 0, fetch |-> 0, run |-> 0, cap |-> MaxHookWork]

NextHook ==
    \/ \E b \in Held("builder") : InitBuilderTarget(b)
    \/ \E b \in Held("builder"), target \in Targets : ProcessTemplate(b, target)
    \/ \E b \in Held("builder"), target \in Targets : FetchProcessed(b, target)
    \/ \E b \in Held("builder"), target \in Targets : Build(b, target)
    \/ \E b \in Held("builder"), target \in Targets : FetchBuilt(b, target)

SpecHook == InitHook /\ [][NextHook]_vars

(* YAMLBuilder: a YAMLBuilder whose template renders to a block mapping of  *)
(* at most MaxKeys entries, each a scalar or each a nested mapping of the  *)
(* same entries, as the template of test_yaml_builder.                     *)

KeySeqs == UNION {[1..n -> YamlKeys] : n \in 1..MaxKeys}

\* the mapping with the keys ks, each with the scalar 1 (inner empty) or with
\* the mapping of the keys inner
Rendered(ks, inner) ==
    YamlMap([i \in 1..Len(ks) |->
        YamlEntry(ks[i],
            IF inner = <<>> THEN YamlScalar("1")
            ELSE YamlMap([j \in 1..Len(inner) |->
                            YamlEntry(inner[j], YamlScalar("1"))]))])

InitYaml ==
    /\ \E ks \in KeySeqs, inner \in KeySeqs \cup {<<>>} :
         heap = <<YAMLBuilder_init(Rendered(ks, inner))>>
    /\ held = (1 :> "YAMLBuilder")
    /\ tokens = {Token(1, "Initialized")}
    /\ ran = {}
    /\ last = Call("init_builder_target", 1, NoToken, "", 1, NoneB)
    /\ used = [new |-> 0, mut |-> 0, fetch |-> 0, run |-> 0, cap |-> MaxYamlRun]

NextYaml ==
    \/ \E b \in Held("yamlbuilder") : YamlProcessTemplate(b)
    \/ \E b \in Held("yamlbuilder") : YamlBuild(b)
    \/ \E b \in Held("yamlbuilder") : YamlFetchBuilt(b)

SpecYaml == InitYaml /\ [][NextYaml]_vars

-----------------------------------------------------------------------------
(* A Config of each class after its construction from a mapping the caller *)
(* still holds: the caller loads it, reads it through its accessors and    *)
(* properties, mutates the mapping and constructs Builders from it.        *)

ConfigDicts == {TestDict, BarDict}

InitConfig ==
    /\ \E items \in ConfigDicts, cls \in ConfigClasses :
         heap = SubConfig_init(<<DictObj(items), TGObj(T2)>>, 1, cls).h
    /\ held = (1 :> "dict") @@ (2 :> "TemplateGetter") @@ (3 :> "Config")
    /\ tokens = {}
    /\ ran = {}
    /\ last = Call("start", NULL, NoToken, "", NULL, NoneB)
    /\ used = [new |-> 0, mut |-> 0, fetch |-> 0, run |-> 0, cap |-> MaxConfigWork]

NextConfig ==
    \/ \E c \in Held("config") : LoadConfig(c)
    \/ \E c \in Held("config") : Data(c)
    \/ \E c \in Held("config") : RawConfigDict(c)
    \/ \E c \in Held("config") : GetRenderContext(c)
    \/ \E c \in Held("config"), f \in Fields : BarConfigField(c, f)
    \/ \E c \in Held("config"), t \in Held("tg"), cls \in BuilderClasses :
         NewBuilder(c, t, cls)
    \/ \E d \in Held("dict"), k \in MutKeys, v \in MutVals : DictSetItem(d, k, v)
    \/ \E d \in Held("dict"), k \in Fields : DictDelItem(d, k)

SpecConfig == InitConfig /\ [][NextConfig]_vars

-----------------------------------------------------------------------------
(* Properties *)

NotSame == "NotSameBuilderInstanceError"

\* the methods that take a target
StageOps == {"fetch_render_context", "process_template", "fetch_processed",
             "build", "fetch_built"}

\* what the caller does to an object it holds
MutOps == {"dict_setitem", "dict_delitem", "list_setitem", "set_template",
           "dict_update", "load_config"}

Builders(h) == OfKind(h, "builder")

\* the static types of the tokens the caller has for a builder
TagsOf(b) == {t.tag : t \in {x \in tokens : x.ref = b}}

\* the static types each method's signature accepts
Accepted(op) ==
    IF op = "build" THEN {"Processed"}
    ELSE IF op = "fetch_processed" THEN {"Processed", "Built"}
    ELSE IF op = "fetch_built" THEN {"Built"}
    ELSE IF op = "process_template" THEN {"Initialized"}
    ELSE {"Initialized", "Processed", "Built"}

\* the step leaves the value of every object but a unchanged
OthersUnchanged(a) ==
    \A x \in Addrs(heap) \ {a} : View(heap', x) = View(heap, x)

\* the step is a caller's mutation of an object that origin handed to it
MutatesFrom(origins) ==
    /\ last'.op \in MutOps
    /\ last'.exc = ""
    /\ held[last'.self] \in origins

\* C1: a token of another Builder instance, also of a deep copy with equal
\* state, is rejected with NotSameBuilderInstanceError by fetch_render_context,
\* process_template, fetch_processed, build and fetch_built.
C1_TokenOfAnotherBuilderRejected ==
    (last.op \in StageOps /\ last.target # last.self) => last.exc = NotSame

\* C1 witness: fetch_built of a builder was given the token build minted on
\* another builder of equal state, and raised.
C1_Witness ==
    /\ last.op = "fetch_built"
    /\ last.target # last.self
    /\ Token(last.target, "Built") \in tokens
    /\ BuilderView(heap, last.target) = BuilderView(heap, last.self)
    /\ last.exc = NotSame

\* C2 as stated: no build completes on a builder whose process_template has
\* not completed, and no fetch_built returns on a builder whose build has not
\* completed.
C2_StageOrderAtRunTime ==
    /\ (last.op = "build" /\ last.exc = "")
         => <<last.self, "process_template">> \in ran
    /\ (last.op = "fetch_built" /\ last.exc = "")
         => <<last.self, "build">> \in ran

\* C2 amended: the order is carried by the static types of the tokens alone.
\* A token of type Processed exists only for a builder on which
\* process_template has completed, and a token of type Built only for a
\* builder on which build has completed.
C2_TokenTypeFollowsStage ==
    \A t \in tokens :
        /\ t.tag = "Processed" => <<t.ref, "process_template">> \in ran
        /\ t.tag = "Built" => <<t.ref, "build">> \in ran

\* C2 witness: build completed, and returned a Built token, on a builder on
\* which process_template never ran.
C2_Witness ==
    /\ last.op = "build"
    /\ last.exc = ""
    /\ <<last.self, "process_template">> \notin ran
    /\ Token(last.self, "Built") \in tokens

\* C3 as stated: build, fetch_processed or fetch_built called with a token of
\* the same builder, when the caller has no token of a type the method
\* accepts for it, fails with NotSameBuilderInstanceError.
C3_WrongStateTokenRejected ==
    ( /\ last.op \in {"build", "fetch_processed", "fetch_built"}
      /\ last.target = last.self
      /\ TagsOf(last.self) \cap Accepted(last.op) = {} )
    => last.exc = NotSame

\* C3 amended: a stage or fetch method fails with NotSameBuilderInstanceError
\* exactly when the token refers to another Builder instance, whatever state
\* the token is for.
C3_RejectedIffAnotherInstance ==
    last.op \in StageOps => (last.exc = NotSame <=> last.target # last.self)

\* C3 witness: build completed with the builder's own token although the
\* caller has only the Initialized token for it.
C3_Witness ==
    /\ last.op = "build"
    /\ last.target = last.self
    /\ last.exc = ""
    /\ TagsOf(last.self) = {"Initialized", "Built"}

\* C4 as stated: once build has completed on a builder, no later operation
\* changes its processed or built value.
C4_BuiltIsTerminal ==
    [][\A b \in Builders(heap) :
         <<b, "build">> \in ran =>
           /\ PVal(heap', heap'[b].processed) = PVal(heap, heap[b].processed)
           /\ heap'[b].built = heap[b].built]_vars

\* C4 amended: the processed value of a builder is changed only by a
\* process_template call on it that passes the identity check, and the built
\* value only by such a build call.
C4_SlotsWrittenOnlyByTheirStage ==
    [][\A b \in Builders(heap) :
         /\ PVal(heap', heap'[b].processed) # PVal(heap, heap[b].processed)
              => (last'.op = "process_template" /\ last'.self = b /\ last'.exc = "")
         /\ heap'[b].built # heap[b].built
              => (last'.op = "build" /\ last'.self = b /\ last'.exc = "")]_vars

\* C4 witness: process_template completed after build on the same builder and
\* set processed, while built is still what build made of None.
C4_Witness ==
    /\ last.op = "process_template"
    /\ last.exc = ""
    /\ <<last.self, "build">> \in ran
    /\ heap[last.self].processed # NULL
    /\ heap[last.self].built = call_build(heap[last.self].build_processed, NoneP)

\* C5 as stated: mutating the mapping that was passed to the Config
\* constructor changes the raw mapping of no Config.
C5_ConfigOwnsCopyOfRawMapping ==
    [][MutatesFrom({"dict"}) =>
         \A c \in OfKind(heap, "config") :
             ConfigView(heap', c).raw = ConfigView(heap, c).raw]_vars

\* C6: raw_config_dict, Builder.config and Builder.template_getter return an
\* object equal to the stored one, and mutating a returned object changes the
\* value of no other object: no Config, no Builder, no later result.
C6_AccessorsReturnCopies ==
    [][/\ last'.op = "raw_config_dict"
            => View(heap', last'.ret) = View(heap', heap'[last'.self].raw)
       /\ last'.op = "config"
            => View(heap', last'.ret) = View(heap', heap'[last'.self].config)
       /\ last'.op = "template_getter"
            => View(heap', last'.ret) = View(heap', heap'[last'.self].template_getter)
       /\ MutatesFrom({"raw_config_dict", "config", "template_getter"})
            => OthersUnchanged(last'.self)]_vars

\* C6 witness: the caller updated the __dict__ of a Config that Builder.config
\* returned, and the builder's own Config has no such attribute.
C6_Witness ==
    /\ last.op = "dict_update"
    /\ held[last.self] = "config"
    /\ \E b \in Builders(heap) : heap[heap[b].config].attrs = {}

\* C7: a mutation of the mapping, the Config (load_config included) or the
\* getter the Builder was constructed from changes the value of no Builder:
\* not its config, render context, template, processed or built value.
C7_ConstructionIsolation ==
    [][MutatesFrom({"dict", "Config", "TemplateGetter"}) =>
         \A b \in Builders(heap) :
             BuilderView(heap', b) = BuilderView(heap, b)]_vars

\* C7 witness: process_template completed after the caller gave its own
\* getter another template, and the builder's getter still has the template
\* of the construction.
C7_Witness ==
    /\ last.op = "process_template"
    /\ last.exc = ""
    /\ \E t \in DOMAIN held :
         /\ held[t] = "TemplateGetter"
         /\ heap[t].template # heap[heap[last.self].template_getter].template

\* C8: fetch_render_context returns an object equal to the cached context
\* that is not the cached object, leaves the cached context as it is, and
\* mutating a returned context changes the value of no other object.
C8_FetchRenderContextReturnsCopy ==
    [][/\ (last'.op = "fetch_render_context" /\ last'.exc = "")
            => /\ last'.ret # heap'[last'.self].render_context
               /\ heap'[last'.ret] = heap'[heap'[last'.self].render_context]
               /\ BuilderView(heap', last'.self) = BuilderView(heap, last'.self)
       /\ MutatesFrom({"fetch_render_context"}) => OthersUnchanged(last'.self)]_vars

\* C8 witness: fetch_render_context returned a context that differs from an
\* earlier returned one, which the caller has mutated since.
C8_Witness ==
    /\ last.op = "fetch_render_context"
    /\ last.exc = ""
    /\ \E a \in DOMAIN held :
         /\ held[a] = "fetch_render_context"
         /\ heap[a].items # heap[last.ret].items

\* C9: fetch_processed and fetch_built return a value equal to the stored one
\* and leave it as it is; fetch_processed returns a new object, and mutating
\* a returned object changes the value of no other object.
C9_FetchesReturnCopies ==
    [][/\ (last'.op = "fetch_processed" /\ last'.exc = "")
            => /\ PVal(heap', last'.ret) = PVal(heap', heap'[last'.self].processed)
               /\ last'.ret # NULL => last'.ret # heap'[last'.self].processed
               /\ BuilderView(heap', last'.self) = BuilderView(heap, last'.self)
       /\ (last'.op = "fetch_built" /\ last'.exc = "")
            => /\ last'.val = heap'[last'.self].built
               /\ BuilderView(heap', last'.self) = BuilderView(heap, last'.self)
       /\ MutatesFrom({"fetch_processed"}) => OthersUnchanged(last'.self)]_vars

\* C9 witness: fetch_processed returned a list that differs from an earlier
\* returned one, which the caller has mutated since.
C9_Witness ==
    /\ last.op = "fetch_processed"
    /\ last.exc = ""
    /\ last.ret # NULL
    /\ \E a \in DOMAIN held :
         /\ held[a] = "fetch_processed"
         /\ heap[a].elems # heap[last.ret].elems

\* C10: after process_template completed on a Builder that does not override
\* _process_template, processed is parse_rendered_template of the builder's
\* template rendered against its cached context, and fetch_processed returns
\* an equal value; the context {foo: FOO, bar: 5} with the two-item template
\* gives [FOO, 5].
C10_ProcessedIsParsedRenderedTemplate ==
    /\ (last.op = "process_template" /\ last.exc = ""
          /\ heap[last.self].cls = "Builder")
         => LET b == heap[last.self]
                template == heap[b.template_getter].template
                context == heap[b.render_context].items
            IN  /\ PVal(heap, b.processed) =
                     call_parse(b.parse_rendered_template, render(template, context))
                /\ (context = TestDict /\ template = T2)
                     => PVal(heap, b.processed) = SomeP(<<FOO, FIVE>>)
    /\ (last.op = "fetch_processed" /\ last.exc = "")
         => PVal(heap, last.ret) = PVal(heap, heap[last.self].processed)

\* C10 witness: fetch_processed returned [FOO, 5] on a Builder of the base
\* class on which process_template has completed.
C10_Witness ==
    /\ last.op = "fetch_processed"
    /\ last.exc = ""
    /\ heap[last.self].cls = "Builder"
    /\ <<last.self, "process_template">> \in ran
    /\ PVal(heap, last.ret) = SomeP(<<FOO, FIVE>>)

\* C11: after build completed on a Builder that does not override _build,
\* built is build_processed of the current processed value, which build
\* leaves as it is, and fetch_built returns a value equal to built; the
\* processed value [FOO, 5] gives the lines "- FOO" and "- 5".
C11_BuiltIsBuildOfProcessed ==
    /\ (last.op = "build" /\ last.exc = "" /\ heap[last.self].cls = "Builder")
         => LET b == heap[last.self]
            IN  /\ b.built = build_processed_yaml_stub(PVal(heap, b.processed))
                /\ PVal(heap, b.processed) = SomeP(<<FOO, FIVE>>)
                     => b.built = SomeB(<<"- FOO", "- 5">>)
    /\ (last.op = "fetch_built" /\ last.exc = "")
         => last.val = heap[last.self].built

\* C11 witness: fetch_built returned "- FOO", "- 5" on a Builder on which
\* process_template and build completed.
C11_Witness ==
    /\ last.op = "fetch_built"
    /\ last.exc = ""
    /\ heap[last.self].cls = "Builder"
    /\ {<<last.self, "process_template">>, <<last.self, "build">>} \subseteq ran
    /\ last.val = SomeB(<<"- FOO", "- 5">>)

\* C12: a Builder the caller constructed has processed None as long as
\* process_template has not completed on it and built None as long as build
\* has not completed on it; a deep copy of a builder has a slot other than
\* None only if that stage completed on some builder.
C12_SlotsNoneUntilTheirStage ==
    \A b \in Builders(heap) :
        /\ (heap[b].processed # NULL) =>
              IF held[b] = "Builder" THEN <<b, "process_template">> \in ran
              ELSE \E o \in Builders(heap) : <<o, "process_template">> \in ran
        /\ (heap[b].built # NoneB) =>
              IF held[b] = "Builder" THEN <<b, "build">> \in ran
              ELSE \E o \in Builders(heap) : <<o, "build">> \in ran

\* C12 witness: of two constructed builders one has a processed value after
\* its process_template and no built value yet, the other has neither.
C12_Witness ==
    \E b1, b2 \in Builders(heap) :
        /\ held[b1] = "Builder" /\ held[b2] = "Builder"
        /\ <<b1, "process_template">> \in ran
        /\ heap[b1].processed # NULL /\ heap[b1].built = NoneB
        /\ heap[b2].processed = NULL /\ heap[b2].built = NoneB

\* the objects a builder refers to
Owned(h, b) ==
    {h[b].config, h[h[b].config].raw, h[b].render_context, h[b].template_getter}
        \cup (IF h[b].processed = NULL THEN {} ELSE {h[b].processed})

C18_BuildHookMutationIsBuilt ==
    /\ (last.op = "build" /\ last.exc = "" /\ heap[last.self].cls = "StubBuilder"
          /\ heap[last.self].processed # NULL)
         => LET b == heap[last.self]
                elems == heap[b.processed].elems
            IN  /\ b.built = build_processed_yaml_stub(
                                 SomeP([elems EXCEPT ![3] = ZOO_Updated]))
                /\ elems[3] # ZOO_Updated
                /\ b.built # build_processed_yaml_stub(SomeP(elems))
                /\ elems = <<FOO, FIVE, ZOO>>
                     => b.built = SomeB(<<"- FOO", "- 5", "- ZOO_Updated">>)
    /\ (last.op = "fetch_built" /\ last.exc = "")
         => fetch_built(heap, last.self) = last.val

\* C18 witness: fetch_built of a StubBuilder returned "- FOO", "- 5",
\* "- ZOO_Updated" while its processed value is [FOO, 5, ZOO].
C18_Witness ==
    /\ last.op = "fetch_built"
    /\ last.exc = ""
    /\ heap[last.self].cls = "StubBuilder"
    /\ PVal(heap, heap[last.self].processed) = SomeP(<<FOO, FIVE, ZOO>>)
    /\ last.val = SomeB(<<"- FOO", "- 5", "- ZOO_Updated">>)

\* C19: after process_template completed on a StubBuilder, processed is the
\* parse of the template rendered against the cached context extended by
\* zoo: ZOO, the cached context itself has no zoo, and fetch_processed
\* returns an equal value; {foo: FOO, bar: 5} with the three-item template
\* gives [FOO, 5, ZOO].
C19_ProcessHookInjectsZoo ==
    /\ (last.op = "process_template" /\ last.exc = ""
          /\ heap[last.self].cls = "StubBuilder")
         => LET b == heap[last.self]
                template == heap[b.template_getter].template
                context == heap[b.render_context].items
                injected == [k \in DOMAIN context \cup {"zoo"} |->
                                IF k = "zoo" THEN ZOO ELSE context[k]]
            IN  /\ PVal(heap, b.processed) =
                     parse_rendered_template_yaml_stub(render(template, injected))
                /\ "zoo" \notin DOMAIN context
                /\ (context = TestDict /\ template = T3)
                     => PVal(heap, b.processed) = SomeP(<<FOO, FIVE, ZOO>>)
    /\ (last.op = "fetch_processed" /\ last.exc = ""
          /\ heap[last.self].cls = "StubBuilder")
         => PVal(heap, last.ret) = PVal(heap, heap[last.self].processed)

\* C19 witness: fetch_processed of a StubBuilder returned [FOO, 5, ZOO].
C19_Witness ==
    /\ last.op = "fetch_processed"
    /\ last.exc = ""
    /\ heap[last.self].cls = "StubBuilder"
    /\ PVal(heap, last.ret) = SomeP(<<FOO, FIVE, ZOO>>)

NotLoaded == "ConfigDataNotLoadedError"

\* the Config the caller constructed has completed load_config
Loaded(c) == <<c, "load_config">> \in ran

\* C13: a Config the caller constructed has data None exactly until
\* load_config completes on it; right after load_config data is the record
\* of the raw mapping; the data property returns the stored value; before
\* load_config the base get_render_context returns the empty mapping and
\* raw_config_dict returns a mapping equal to the input mapping.
C13_DataNoneUntilLoadConfig ==
    /\ \A c \in Held("config") :
         held[c] = "Config" => (heap[c].data = NoData <=> ~Loaded(c))
    /\ (last.op = "load_config" /\ last.exc = "")
         => heap[last.self].data =
              [some |-> TRUE, fields |-> heap[heap[last.self].raw].items]
    /\ last.op = "data" => last.val = heap[last.self].data
    /\ (last.op = "get_render_context" /\ heap[last.self].cls = "Config"
          /\ ~Loaded(last.self))
         => (last.exc = "" /\ heap[last.ret].items = <<>>)
    /\ (last.op = "raw_config_dict" /\ ~Loaded(last.self))
         => /\ held[heap[last.self].raw] = "dict"
            /\ heap[last.ret].items = heap[heap[last.self].raw].items

\* C13 witness: load_config completed on a Config whose render context the
\* caller fetched before, which is the empty mapping.
C13_Witness ==
    /\ last.op = "load_config"
    /\ last.exc = ""
    /\ heap[last.self].cls = "Config"
    /\ heap[last.self].data # NoData
    /\ \E a \in DOMAIN held :
         held[a] = "get_render_context" /\ heap[a].items = <<>>

\* C14: get_render_context of a Config that does not override it never
\* raises and returns the empty mapping when data is None, else a mapping of
\* exactly the field names to the loaded values, which is equal to the raw
\* mapping when nobody has mutated it; {foo: FOO, bar: 5} gives
\* {foo: FOO, bar: 5}.
C14_BaseRenderContext ==
    (last.op = "get_render_context" /\ heap[last.self].cls = "Config")
    => /\ last.exc = ""
       /\ LET d == heap[last.self].data
              r == heap[last.ret].items
          IN  IF d = NoData THEN r = <<>>
              ELSE /\ DOMAIN r = Fields
                   /\ \A f \in Fields : r[f] = d.fields[f]
                   /\ used.mut = 0 => r = heap[heap[last.self].raw].items
                   /\ d.fields = TestDict => r = Dict2("foo", FOO, "bar", FIVE)

\* C14 witness: get_render_context of a loaded Config returned
\* {foo: FOO, bar: 5}.
C14_Witness ==
    /\ last.op = "get_render_context"
    /\ heap[last.self].cls = "Config"
    /\ Loaded(last.self)
    /\ heap[last.ret].items = TestDict

SatisfiesShape(items) ==
    /\ DOMAIN items = Fields
    /\ \A f \in Fields : items[f].t = FieldTypes[f]

\* C16 as stated: load_config raises on every mapping that does not satisfy
\* the declared shape, a field of another type than annotated included.
C16_MistypedFieldRejected ==
    (last.op = "load_config"
        /\ ~SatisfiesShape(heap[heap[last.self].raw].items))
    => last.exc = "TypeError"

\* C16 amended: load_config raises TypeError exactly when the keys of the
\* raw mapping are not exactly the declared field names, whatever the types
\* of the values, which are loaded as they are; the construction of a
\* Builder raises on such a mapping too; a failing load_config or
\* construction changes no object, so data keeps its value and no Builder
\* exists.
C16_ShapeIsFieldNamesOnly ==
    [][/\ last'.op = "load_config"
            => LET items == heap[heap[last'.self].raw].items
               IN  /\ last'.exc = "TypeError" <=> DOMAIN items # Fields
                   /\ last'.exc = "TypeError" => heap' = heap
                   /\ last'.exc = ""
                        => heap'[last'.self].data = [some |-> TRUE, fields |-> items]
       /\ last'.op = "Builder"
            => LET items == heap[heap[last'.ret].raw].items
               IN  /\ DOMAIN items # Fields => last'.exc = "TypeError"
                   /\ (last'.exc = "TypeError" /\ heap[last'.ret].cls = "Config")
                        => DOMAIN items # Fields
                   /\ last'.exc = "TypeError"
                        => (heap' = heap /\ held' = held /\ last'.self = NULL)]_vars

\* C16 witness: the construction of a Builder raised TypeError on a Config
\* whose mapping has the undeclared key zoo, and the Config's data is None.
C16_Witness ==
    /\ last.op = "Builder"
    /\ last.exc = "TypeError"
    /\ DOMAIN heap[heap[last.ret].raw].items = Fields \cup {"zoo"}
    /\ heap[last.ret].data = NoData
    /\ Builders(heap) = {}

\* C20: get_render_context of a Config whose class overrides
\* _get_render_context returns what the override returns: the base mapping of
\* data plus zoo: ZOO for the override that delegates with data; for the
\* override that delegates with None, the empty mapping when data is None and
\* exactly {zoo: foo + 5} otherwise.  {bar: abc, foo: 5} gives
\* {bar: abc, foo: 5, zoo: ZOO} and {zoo: 10}.
C20_OverrideComposesWithBase ==
    (last.op = "get_render_context" /\ last.exc = "")
    => LET d == heap[last.self].data
           r == heap[last.ret].items
       IN  /\ heap[last.self].cls = "BarConfigZoo"
                => /\ DOMAIN r = (IF d = NoData THEN {} ELSE Fields) \cup {"zoo"}
                   /\ r["zoo"] = ZOO
                   /\ \A f \in DOMAIN r \ {"zoo"} : r[f] = d.fields[f]
                   /\ d.fields = BarDict
                        => r = [k \in {"bar", "foo", "zoo"} |->
                                  IF k = "bar" THEN ABC
                                  ELSE IF k = "foo" THEN FIVE ELSE ZOO]
           /\ heap[last.self].cls = "BarConfigNone"
                => IF d = NoData THEN r = <<>>
                   ELSE /\ DOMAIN r = {"zoo"}
                        /\ r["zoo"].t = "int"
                        /\ d.fields = BarDict => r["zoo"] = PyInt("10")

\* C20 witness: get_render_context of a loaded Config of the class that adds
\* zoo: ZOO returned {bar: abc, foo: 5, zoo: ZOO}.
C20_Witness ==
    /\ last.op = "get_render_context"
    /\ last.exc = ""
    /\ heap[last.self].cls = "BarConfigZoo"
    /\ heap[last.self].data # NoData
    /\ DOMAIN heap[last.ret].items = {"bar", "foo", "zoo"}
    /\ heap[last.ret].items["zoo"] = ZOO
    /\ heap[last.ret].items["foo"] = FIVE

-----------------------------------------------------------------------------
(* The hooks and their arguments *)

\* C23: a build call that completes leaves the processed value of the
\* builder as it was, also on a StubBuilder whose _build assigns an item of
\* the list it is given, and fetch_processed returns the same value after the
\* call as before it.
C23_BuildLeavesProcessed ==
    [][(last'.op = "build" /\ last'.exc = "") =>
         LET b == last'.self
             before == fetch_processed(heap, b)
             after == fetch_processed(heap', b)
         IN  /\ PVal(heap', heap'[b].processed) = PVal(heap, heap[b].processed)
             /\ PVal(after.h, after.ref) = PVal(before.h, before.ref)]_vars

\* C23 witness: fetch_processed with the Built token returned [FOO, 5, ZOO]
\* on a StubBuilder whose build made its text of a list with ZOO_Updated.
C23_Witness ==
    /\ last.op = "fetch_processed"
    /\ last.exc = ""
    /\ Token(last.target, "Built") \in tokens
    /\ heap[last.self].cls = "StubBuilder"
    /\ <<last.self, "build">> \in ran
    /\ PVal(heap, last.ret) = SomeP(<<FOO, FIVE, ZOO>>)
    /\ heap[last.self].built = SomeB(<<"- FOO", "- 5", "- ZOO_Updated">>)

\* C24: no step changes the cached render context of a builder: not
\* process_template, also on a StubBuilder whose _process_template adds a key
\* to the context it is given, not build, no fetch and no mutation of a
\* fetched object; so fetch_render_context returns equal values before and
\* after every stage.
C24_RenderContextFixed ==
    [][\A b \in Builders(heap) :
         LET before == fetch_render_context(heap, b)
             after == fetch_render_context(heap', b)
         IN  /\ heap'[b].render_context = heap[b].render_context
             /\ after.h[after.ref].items = before.h[before.ref].items]_vars

\* C24 witness: fetch_render_context returned a context without zoo on a
\* StubBuilder on which process_template and build completed and whose
\* processed value has the ZOO that the hook added to its context.
C24_Witness ==
    /\ last.op = "fetch_render_context"
    /\ last.exc = ""
    /\ heap[last.self].cls = "StubBuilder"
    /\ {<<last.self, "process_template">>, <<last.self, "build">>} \subseteq ran
    /\ "zoo" \notin DOMAIN heap[last.ret].items
    /\ PVal(heap, heap[last.self].processed) = SomeP(<<FOO, FIVE, ZOO>>)

-----------------------------------------------------------------------------
(* Rejected calls and tokens *)

\* C25: a stage or fetch call that raises NotSameBuilderInstanceError leaves
\* the heap as it is: no copy is made, no slot is written, and the called
\* builder and the builder of the token keep their render context, processed
\* and built values; no stage is recorded as run and no token is minted.
C25_RejectedCallChangesNothing ==
    [][(last'.op \in StageOps /\ last'.exc = NotSame) =>
         /\ heap' = heap
         /\ BuilderView(heap', last'.self) = BuilderView(heap, last'.self)
         /\ BuilderView(heap', last'.target) = BuilderView(heap, last'.target)
         /\ ran' = ran
         /\ tokens' = tokens
         /\ held' = held]_vars

\* C25 witness: process_template of a builder that has no processed value was
\* rejected for the token that process_template of another builder returned,
\* and the called builder still has no processed value.
C25_Witness ==
    /\ last.op = "process_template"
    /\ last.exc = NotSame
    /\ Token(last.target, "Processed") \in tokens
    /\ heap[last.target].processed # NULL
    /\ heap[last.self].processed = NULL
    /\ <<last.self, "process_template">> \notin ran

\* C26: init_builder_target returns the calling builder; process_template
\* and build, when they complete, return the token they were given, which is
\* the calling builder; every token the caller has is a Builder, and a call
\* of a builder's method with that builder as the token is never rejected.
C26_TokenIsTheBuilder ==
    /\ last.op = "init_builder_target" => last.ret = last.self
    /\ (last.op \in {"process_template", "build"} /\ last.exc = "")
         => /\ last.ret = last.target
            /\ last.ret = last.self
    /\ \A t \in tokens : t.ref \in Builders(heap)
    /\ (last.op \in StageOps /\ last.target = last.self) => last.exc # NotSame
    /\ (last.op \in {"init_builder_target", "process_template", "build"}
          /\ last.exc = "")
         => ~_check_see_if_same_builder_instance(heap, last.self, last.ret)

\* C26 witness: build completed on the deep copy of a builder and returned
\* the copy itself, for which the caller now has a token of every stage.
C26_Witness ==
    /\ last.op = "build"
    /\ last.exc = ""
    /\ held[last.self] = "deepcopy"
    /\ last.ret = last.self
    /\ TagsOf(last.self) = {"Initialized", "Processed", "Built"}

\* C28: the Config a Builder was constructed from has data None as long as
\* the caller has not loaded it, while the Config that Builder.config
\* returns has the data loaded from its raw mapping, which is the mapping of
\* the construction.
C28_ConstructionLoadsPrivateCopy ==
    /\ \A c \in Held("config") :
         (held[c] = "Config" /\ <<c, "load_config">> \notin ran)
            => data(heap, c) = NoData
    /\ last.op = "config"
         => /\ data(heap, last.ret) =
                  [some |-> TRUE, fields |-> heap[heap[last.ret].raw].items]
            /\ data(heap, last.ret).fields = TestDict
            /\ last.ret # heap[last.self].config

\* C28 witness: Builder.config returned a loaded Config while the Config the
\* caller constructed the Builder from still has data None.
C28_Witness ==
    /\ last.op = "config"
    /\ data(heap, last.ret).some
    /\ \E c \in Held("config") :
         /\ held[c] = "Config"
         /\ data(heap, c) = NoData
         /\ heap[c].raw # heap[last.ret].raw

-----------------------------------------------------------------------------
(* Failures of the collaborators and hooks that do not delegate *)

\* C22: a process_template or build call in which the template engine, the
\* parse callable, the build callable or the hook raises ends with that
\* exception: it returns nothing, mints no token, records no stage, and the
\* processed and built values of the builder are what they were; the
\* exception of process_template is that of get_template or of the parser,
\* that of build is that of build_processed or of the hook.
C22_FailurePropagatesSlotsKept ==
    [][(last'.op \in {"process_template", "build"}
          /\ last'.exc \notin {"", NotSame}) =>
         LET b == last'.self
         IN  /\ PVal(heap', heap'[b].processed) = PVal(heap, heap[b].processed)
             /\ heap'[b].built = heap[b].built
             /\ last'.ret = NULL
             /\ tokens' = tokens
             /\ ran' = ran
             /\ last'.op = "process_template"
                  => IF ~heap[heap[b].template_getter].loader
                     THEN last'.exc = "TypeError"
                     ELSE /\ last'.exc = "ParserError"
                          /\ heap[heap[b].render_context].items["foo"].v = "["
             /\ last'.op = "build" => last'.exc \in {"Exception", "IndexError"}]_vars

\* C22 witness: build raised the exception of build_processed on a builder
\* that has a processed list and the text of an earlier build, and has no
\* token of a later build.
C22_Witness ==
    /\ last.op = "build"
    /\ last.exc = "Exception"
    /\ heap[last.self].processed # NULL
    /\ heap[last.self].built = SomeB(<<"abc">>)
    /\ last.ret = NULL

\* C27: on a builder of the base class or of StubBuilder a completed build
\* leaves in built what build_processed gives for the list the hook handed
\* to the base; on a builder whose hooks do not call the base, processed and
\* built stay None whatever the hooks return, while process_template and
\* build still return the token and fetch_built returns None.
C27_OnlyBaseWritesSlots ==
    /\ \A b \in Builders(heap) :
         heap[b].cls = "OverrideBuilder"
            => heap[b].processed = NULL /\ heap[b].built = NoneB
    /\ (last.op \in {"process_template", "build"} /\ last.exc = "")
         => /\ last.ret = last.self
            /\ Token(last.self, IF last.op = "build" THEN "Built" ELSE "Processed")
                  \in tokens
    /\ (last.op = "build" /\ last.exc = ""
          /\ heap[last.self].cls # "OverrideBuilder")
         => LET b == heap[last.self]
                stored == PVal(heap, b.processed)
                handed == IF b.cls = "StubBuilder" /\ stored.some
                          THEN SomeP([stored.elems EXCEPT ![3] = ZOO_Updated])
                          ELSE stored
            IN  b.built = call_build(b.build_processed, handed)
    /\ (last.op = "fetch_built" /\ last.exc = ""
          /\ heap[last.self].cls = "OverrideBuilder")
         => last.val = NoneB

\* C27 witness: fetch_built with the Built token returned None on a builder
\* whose hooks do not call the base, after its process_template and build
\* completed.
C27_Witness ==
    /\ last.op = "fetch_built"
    /\ last.exc = ""
    /\ heap[last.self].cls = "OverrideBuilder"
    /\ {<<last.self, "process_template">>, <<last.self, "build">>} \subseteq ran
    /\ Token(last.target, "Built") \in tokens
    /\ last.val = NoneB

-----------------------------------------------------------------------------
(* YAML key order *)

\* the entries of a rendered mapping with each key once, at its first place
RECURSIVE FirstPlaces(_)
FirstPlaces(entries) ==
    IF entries = <<>> THEN <<>>
    ELSE LET n == Len(entries)
             init == FirstPlaces(SubSeq(entries, 1, n - 1))
         IN  IF \E i \in 1..Len(init) : init[i].k = entries[n].k THEN init
             ELSE Append(init, [entries[n] EXCEPT !.v.entries = FirstPlaces(@)])

\* C21 as stated: for every rendered mapping, build of the YAMLBuilder on
\* which process_template completed returns, and the text that fetch_built
\* returns has the keys of every level in the order of the rendered template.
C21_KeyOrderPreserved ==
    /\ last.op = "build" => last.exc = ""
    /\ \A b \in OfKind(heap, "yamlbuilder") :
         heap[b].built.some
            => heap[b].built.text = emit(FirstPlaces(heap[b].rendered.entries))

\* what holds: the same for the rendered mappings whose keys are all str
C21_StrKeyOrderPreserved ==
    \A b \in OfKind(heap, "yamlbuilder") :
        LET r == heap[b].rendered.entries
            strs == \A i \in 1..Len(r) :
                       /\ yaml_scalar(r[i].k).t = "str"
                       /\ \A j \in 1..Len(r[i].v.entries) :
                              yaml_scalar(r[i].v.entries[j].k).t = "str"
        IN  /\ (last.op = "build" /\ strs) => last.exc = ""
            /\ heap[b].built.some
                 => heap[b].built.text = emit(FirstPlaces(r))
            /\ (last.op = "build" /\ ~strs) => last.exc = "ValueError"

\* C21 witness: fetch_built returned the nested mapping with foo before bar
\* at both levels, as rendered, and not in the sorted order of
\* represent_mapping.
C21_Witness ==
    /\ last.op = "fetch_built"
    /\ last.exc = ""
    /\ heap[last.self].kind = "yamlbuilder"
    /\ last.val = SomeB(<<"foo:", "  foo: 1", "  bar: 1",
                          "bar:", "  foo: 1", "  bar: 1">>)

====
